---- MODULE Spec2Model ----
(***************************************************************************)
(* A model of the chained hash table of src/src/lib.rs: HashMap<K, V> with *)
(* its bucket array and item counter, the Entry API, the borrowing and the *)
(* consuming iterator, and FromIterator.                                   *)
(*                                                                         *)
(* Vec indices of the source are 0-based and TLA+ sequences are 1-based:   *)
(* bucket number b of the source is buckets[b + 1] here, and likewise for  *)
(* positions inside a bucket.  A stored pair (k, v) is the tuple <<k, v>>. *)
(* Option<T> is modelled as a sequence: None is <<>>, Some(x) is <<x>>.    *)
(***************************************************************************)
EXTENDS Integers, Sequences, FiniteSets, TLC

\* ------------------------------------------------------------------ bounds
NumKeys == 2      \* keys are 1..NumKeys
HashMax == 3      \* hasher.finish() ranges over 0..HashMax
MaxSeqLen == 3    \* longest sequence handed to from_iter
MaxNones == 2     \* next() is called until it has returned None this often

\* const INITIAL_NBUCKETS: usize = 1;
INITIAL_NBUCKETS == 1

\* <V as Default>::default(), the value or_default stores.
DefaultV == 0

Keys == 1..NumKeys
\* The code moves values and never inspects them (V is unconstrained but for
\* V: Default in or_default): the default and one other value tell a kept
\* value from an overwritten one.
Vals == {DefaultV, 1}
HashVals == 0..HashMax
Pairs == Keys \X Vals

None == <<>>
Some(x) == <<x>>
is_some(o) == o # None
unwrap(o) == o[1]

VARIABLES
    buckets,      \* HashMap::buckets: Vec<Vec<(K, V)>>
    items,        \* HashMap::items: usize
    hash,         \* DefaultHasher: the hash value of every key
    owner,        \* who holds the map: "caller", "Entry", "Iter", "IntoIter"
    entry,        \* the Entry returned by entry() and not yet consumed
    iter,         \* Iter { bucket, at } / IntoIter { bucket }
    yielded,      \* the pairs the running iterator has returned so far
    snapshot,     \* the buckets as they were when the iterator was created
    nones,        \* how many times the running iterator has returned None
    ref,          \* reference map: the key/value content the calls built up
    last          \* the last call: its name, arguments and result

vars == <<buckets, items, hash, owner, entry, iter, yielded, snapshot, nones, ref, last>>

\* ------------------------------------------------------------ the map, pure

\* HashMap::new()
new == [buckets |-> <<>>, items |-> 0]

MinOf(S) == CHOOSE i \in S : \A j \in S : i <= j

\* Iterator::position over a bucket: the 0-based index of the first pair
\* whose key equals `key`.
position(b, key) ==
    LET hits == {i \in 1..Len(b) : b[i][1] = key}
    IN  IF hits = {} THEN None ELSE Some(MinOf(hits) - 1)

\* hasher.finish() % n as usize
hash_mod(key, n) == hash[key] % n

\* HashMap::bucket
bucket(m, key) ==
    IF Len(m.buckets) = 0 THEN None
    ELSE Some(hash_mod(key, Len(m.buckets)))

\* self.buckets.iter_mut().flat_map(|bucket| bucket.drain(..)): every pair,
\* buckets in ascending order, each bucket front to back.
RECURSIVE drain(_)
drain(bs) == IF bs = <<>> THEN <<>> ELSE Head(bs) \o drain(Tail(bs))

\* The loop of resize with `new_buckets[bucket] = vec![(key, value)]` in
\* place of the push: a pair replaces what its bucket held.
RECURSIVE rehash_overwrites(_, _)
rehash_overwrites(pairs, new_buckets) ==
    IF pairs = <<>> THEN new_buckets
    ELSE LET p == Head(pairs)
             b == hash_mod(p[1], Len(new_buckets))
         IN  rehash_overwrites(Tail(pairs), [new_buckets EXCEPT ![b + 1] = <<p>>])

\* The loop of resize that reduces the hash modulo the old bucket count.
RECURSIVE rehash_old_modulus(_, _)
rehash_old_modulus(pairs, new_buckets) ==
    IF pairs = <<>> THEN new_buckets
    ELSE LET p == Head(pairs)
             b == hash_mod(p[1], Len(new_buckets) \div 2)
         IN  rehash_old_modulus(Tail(pairs), [new_buckets EXCEPT ![b + 1] = Append(@, p)])

\* The loop of resize: each drained pair is pushed on its bucket under the
\* new modulus.
RECURSIVE rehash(_, _)
rehash(pairs, new_buckets) ==
    IF pairs = <<>> THEN new_buckets
    ELSE LET p == Head(pairs)
             b == hash_mod(p[1], Len(new_buckets))
         IN  rehash(Tail(pairs), [new_buckets EXCEPT ![b + 1] = Append(@, p)])

\* new_buckets.extend((0..target_size).map(|_| Vec::new()))
RECURSIVE empty_buckets(_)
empty_buckets(n) == IF n = 0 THEN <<>> ELSE Append(empty_buckets(n - 1), <<>>)

\* HashMap::resize
resize(m) ==
    LET target_size == IF Len(m.buckets) = 0 THEN INITIAL_NBUCKETS
                       ELSE 2 * Len(m.buckets)
        new_buckets == empty_buckets(target_size)
    IN  [m EXCEPT !.buckets = rehash(drain(m.buckets), new_buckets)]

\* The resize condition with a load factor of 1 in place of 3/4.
needs_resize_load_one(m) ==
    Len(m.buckets) = 0 \/ m.items > Len(m.buckets)

\* The resize condition with >= in place of >.
needs_resize_inclusive(m) ==
    Len(m.buckets) = 0 \/ m.items >= (3 * Len(m.buckets)) \div 4

\* self.buckets.is_empty() || self.items > 3 * self.buckets.len() / 4
needs_resize(m) ==
    Len(m.buckets) = 0 \/ m.items > (3 * Len(m.buckets)) \div 4

\* The resize check at the start of insert and entry.
grow(m) == IF needs_resize(m) THEN resize(m) ELSE m

\* insert with `self.items += 1` moved in front of the scan for the key: a
\* replace counts as a new pair.
insert_counts_replace(m, key, value) ==
    LET m1 == grow(m)
        b == unwrap(bucket(m1, key))
        pos == position(m1.buckets[b + 1], key)
    IN  IF is_some(pos)
        THEN [map |-> [buckets |-> [m1.buckets EXCEPT ![b + 1][unwrap(pos) + 1][2] = value],
                       items |-> m1.items + 1],
              ret |-> Some(m1.buckets[b + 1][unwrap(pos) + 1][2]),
              resized |-> needs_resize(m)]
        ELSE [map |-> [buckets |-> [m1.buckets EXCEPT ![b + 1] = Append(@, <<key, value>>)],
                       items |-> m1.items + 1],
              ret |-> None,
              resized |-> needs_resize(m)]

\* insert with the arguments of mem::replace mixed up: a replace returns the
\* new value.
insert_returns_new(m, key, value) ==
    LET m1 == grow(m)
        b == unwrap(bucket(m1, key))
        pos == position(m1.buckets[b + 1], key)
    IN  IF is_some(pos)
        THEN [map |-> [m1 EXCEPT !.buckets[b + 1][unwrap(pos) + 1][2] = value],
              ret |-> Some(value),
              resized |-> needs_resize(m)]
        ELSE [map |-> [buckets |-> [m1.buckets EXCEPT ![b + 1] = Append(@, <<key, value>>)],
                       items |-> m1.items + 1],
              ret |-> None,
              resized |-> needs_resize(m)]

\* insert that compares the key with the first pair of the bucket only.
insert_scans_first(m, key, value) ==
    LET m1 == grow(m)
        b == unwrap(bucket(m1, key))
        bk == m1.buckets[b + 1]
    IN  IF Len(bk) > 0 /\ bk[1][1] = key
        THEN [map |-> [m1 EXCEPT !.buckets[b + 1][1][2] = value],
              ret |-> Some(bk[1][2]),
              resized |-> needs_resize(m)]
        ELSE [map |-> [buckets |-> [m1.buckets EXCEPT ![b + 1] = Append(@, <<key, value>>)],
                       items |-> m1.items + 1],
              ret |-> None,
              resized |-> needs_resize(m)]

\* HashMap::insert: [map, ret, resized]
insert(m, key, value) ==
    LET m1 == grow(m)
        b == unwrap(bucket(m1, key))
        pos == position(m1.buckets[b + 1], key)
    IN  IF is_some(pos)
        THEN [map |-> [m1 EXCEPT !.buckets[b + 1][unwrap(pos) + 1][2] = value],
              ret |-> Some(m1.buckets[b + 1][unwrap(pos) + 1][2]),
              resized |-> needs_resize(m)]
        ELSE [map |-> [buckets |-> [m1.buckets EXCEPT ![b + 1] = Append(@, <<key, value>>)],
                       items |-> m1.items + 1],
              ret |-> None,
              resized |-> needs_resize(m)]

\* HashMap::get
get(m, key) ==
    LET b == bucket(m, key)
    IN  IF b = None THEN None
        ELSE LET pos == position(m.buckets[unwrap(b) + 1], key)
             IN  IF pos = None THEN None
                 ELSE Some(m.buckets[unwrap(b) + 1][unwrap(pos) + 1][2])

\* HashMap::contains_key
contains_key(m, key) == is_some(get(m, key))

\* Vec::swap_remove(i), i 0-based: the last element takes the place of the
\* removed one.
swap_remove(b, i) ==
    LET n == Len(b)
    IN  [vec |-> IF i + 1 = n THEN SubSeq(b, 1, n - 1)
                 ELSE SubSeq(b, 1, i) \o <<b[n]>> \o SubSeq(b, i + 2, n - 1),
         removed |-> b[i + 1]]

\* remove with bucket.pop() in place of bucket.swap_remove(i).
remove_pops_last(m, key) ==
    LET b == bucket(m, key)
    IN  IF b = None THEN [map |-> m, ret |-> None]
        ELSE LET bk == m.buckets[unwrap(b) + 1]
                 i == position(bk, key)
             IN  IF i = None THEN [map |-> m, ret |-> None]
                 ELSE [map |-> [buckets |-> [m.buckets EXCEPT ![unwrap(b) + 1] =
                                                 SubSeq(bk, 1, Len(bk) - 1)],
                                items |-> m.items - 1],
                       ret |-> Some(bk[Len(bk)][2])]

\* remove with `self.items -= 1` moved in front of the search for the key.
remove_decrements_first(m, key) ==
    LET b == bucket(m, key)
    IN  IF b = None THEN [map |-> m, ret |-> None]
        ELSE LET i == position(m.buckets[unwrap(b) + 1], key)
             IN  IF i = None THEN [map |-> [m EXCEPT !.items = m.items - 1], ret |-> None]
                 ELSE LET sr == swap_remove(m.buckets[unwrap(b) + 1], unwrap(i))
                      IN  [map |-> [buckets |-> [m.buckets EXCEPT ![unwrap(b) + 1] = sr.vec],
                                    items |-> m.items - 1],
                           ret |-> Some(sr.removed[2])]

\* remove without `self.items -= 1`.
remove_no_decrement(m, key) ==
    LET b == bucket(m, key)
    IN  IF b = None THEN [map |-> m, ret |-> None]
        ELSE LET i == position(m.buckets[unwrap(b) + 1], key)
             IN  IF i = None THEN [map |-> m, ret |-> None]
                 ELSE LET sr == swap_remove(m.buckets[unwrap(b) + 1], unwrap(i))
                      IN  [map |-> [buckets |-> [m.buckets EXCEPT ![unwrap(b) + 1] = sr.vec],
                                    items |-> m.items],
                           ret |-> Some(sr.removed[2])]

\* HashMap::remove: [map, ret]
remove(m, key) ==
    LET b == bucket(m, key)
    IN  IF b = None THEN [map |-> m, ret |-> None]
        ELSE LET i == position(m.buckets[unwrap(b) + 1], key)
             IN  IF i = None THEN [map |-> m, ret |-> None]
                 ELSE LET sr == swap_remove(m.buckets[unwrap(b) + 1], unwrap(i))
                      IN  [map |-> [buckets |-> [m.buckets EXCEPT ![unwrap(b) + 1] = sr.vec],
                                    items |-> m.items - 1],
                           ret |-> Some(sr.removed[2])]

\* HashMap::len
len(m) == m.items

\* HashMap::is_empty
is_empty(m) == m.items = 0

\* ------------------------------------------------------------ the Entry API

NoEntry == [kind |-> "None"]

\* HashMap::entry: [map, entry, resized]
entry_of(m, key) ==
    LET m1 == grow(m)
        b == unwrap(bucket(m1, key))
        pos == position(m1.buckets[b + 1], key)
    IN  [map |-> m1,
         entry |-> IF is_some(pos)
                   THEN [kind |-> "Occupied", bucket |-> b, index |-> unwrap(pos)]
                   ELSE [kind |-> "Vacant", key |-> key, bucket |-> b],
         resized |-> needs_resize(m)]

\* VacantEntry::insert without `self.map.items += 1`.
vacant_insert_no_count(m, e, value) ==
    LET bs == [m.buckets EXCEPT ![e.bucket + 1] = Append(@, <<e.key, value>>)]
    IN  [map |-> [buckets |-> bs, items |-> m.items],
         ret |-> bs[e.bucket + 1][Len(bs[e.bucket + 1])][2]]

\* VacantEntry::insert: [map, ret]; ret is the value behind the returned
\* reference, read from the last slot of the bucket after the push.
vacant_insert(m, e, value) ==
    LET bs == [m.buckets EXCEPT ![e.bucket + 1] = Append(@, <<e.key, value>>)]
    IN  [map |-> [buckets |-> bs, items |-> m.items + 1],
         ret |-> bs[e.bucket + 1][Len(bs[e.bucket + 1])][2]]

\* The value behind OccupiedEntry::entry.
occupied_value(m, e) == m.buckets[e.bucket + 1][e.index + 1][2]

\* or_insert whose Occupied arm writes the value into the slot.
or_insert_overwrites(m, e, value) ==
    IF e.kind = "Occupied"
    THEN [map |-> [m EXCEPT !.buckets[e.bucket + 1][e.index + 1][2] = value],
          ret |-> value]
    ELSE vacant_insert(m, e, value)

\* Entry::or_insert: [map, ret]
or_insert(m, e, value) ==
    IF e.kind = "Occupied"
    THEN [map |-> m, ret |-> occupied_value(m, e)]
    ELSE vacant_insert(m, e, value)

\* or_insert_with that evaluates maker() before matching on the entry.
or_insert_with_eager(m, e, made) ==
    IF e.kind = "Occupied"
    THEN [map |-> m, ret |-> occupied_value(m, e), maker_calls |-> 1]
    ELSE LET r == vacant_insert(m, e, made)
         IN  [map |-> r.map, ret |-> r.ret, maker_calls |-> 1]

\* Entry::or_insert_with: [map, ret, maker_calls]; `made` is what maker()
\* returns, and maker_calls counts the evaluations of maker().
or_insert_with(m, e, made) ==
    IF e.kind = "Occupied"
    THEN [map |-> m, ret |-> occupied_value(m, e), maker_calls |-> 0]
    ELSE LET r == vacant_insert(m, e, made)
         IN  [map |-> r.map, ret |-> r.ret, maker_calls |-> 1]

\* Entry::or_default
or_default(m, e) == or_insert_with(m, e, DefaultV)

\* ------------------------------------------------------------ the iterators

\* <&HashMap as IntoIterator>::into_iter
iter_new == [bucket |-> 0, at |-> 0]

\* Iter::next without `self.at = 0` when it moves to the next bucket.
RECURSIVE iter_next_keeps_at(_, _)
iter_next_keeps_at(m, it) ==
    IF it.bucket < Len(m.buckets)
    THEN LET b == m.buckets[it.bucket + 1]
         IN  IF it.at < Len(b)
             THEN [iter |-> [it EXCEPT !.at = it.at + 1], ret |-> Some(b[it.at + 1])]
             ELSE iter_next_keeps_at(m, [it EXCEPT !.bucket = it.bucket + 1])
    ELSE [iter |-> it, ret |-> None]

\* Iter::next: [iter, ret]
RECURSIVE iter_next(_, _)
iter_next(m, it) ==
    IF it.bucket < Len(m.buckets)
    THEN LET b == m.buckets[it.bucket + 1]
         IN  IF it.at < Len(b)
             THEN [iter |-> [it EXCEPT !.at = it.at + 1], ret |-> Some(b[it.at + 1])]
             ELSE iter_next(m, [bucket |-> it.bucket + 1, at |-> 0])
    ELSE [iter |-> it, ret |-> None]

\* The pairs of a full borrowing traversal, in the order next() returns them.
RECURSIVE collect(_, _)
collect(m, it) ==
    LET r == iter_next(m, it)
    IN  IF r.ret = None THEN <<>> ELSE <<unwrap(r.ret)>> \o collect(m, r.iter)

traverse(m) == collect(m, iter_new)

\* IntoIter::next that moves to the next bucket after every pop.
RECURSIVE into_iter_next_advances(_, _)
into_iter_next_advances(m, it) ==
    IF it.bucket < Len(m.buckets)
    THEN LET b == m.buckets[it.bucket + 1]
         IN  IF Len(b) > 0
             THEN [map |-> [m EXCEPT !.buckets[it.bucket + 1] = SubSeq(b, 1, Len(b) - 1)],
                   iter |-> [it EXCEPT !.bucket = it.bucket + 1],
                   ret |-> Some(b[Len(b)])]
             ELSE into_iter_next_advances(m, [it EXCEPT !.bucket = it.bucket + 1])
    ELSE [map |-> m, iter |-> it, ret |-> None]

\* IntoIter::next: [map, iter, ret]
RECURSIVE into_iter_next(_, _)
into_iter_next(m, it) ==
    IF it.bucket < Len(m.buckets)
    THEN LET b == m.buckets[it.bucket + 1]
         IN  IF Len(b) > 0
             THEN [map |-> [m EXCEPT !.buckets[it.bucket + 1] = SubSeq(b, 1, Len(b) - 1)],
                   iter |-> it,
                   ret |-> Some(b[Len(b)])]
             ELSE into_iter_next(m, [it EXCEPT !.bucket = it.bucket + 1])
    ELSE [map |-> m, iter |-> it, ret |-> None]

\* from_iter that skips a pair whose key the map already holds.
RECURSIVE from_iter_first_wins(_, _)
from_iter_first_wins(m, pairs) ==
    IF pairs = <<>> THEN m
    ELSE from_iter_first_wins(
             IF contains_key(m, Head(pairs)[1]) THEN m
             ELSE insert(m, Head(pairs)[1], Head(pairs)[2]).map,
             Tail(pairs))

\* FromIterator::from_iter
RECURSIVE from_iter_loop(_, _)
from_iter_loop(m, pairs) ==
    IF pairs = <<>> THEN m
    ELSE from_iter_loop(insert(m, Head(pairs)[1], Head(pairs)[2]).map, Tail(pairs))

from_iter(pairs) == from_iter_loop(new, pairs)

\* ------------------------------------------------------ run-time failures
\* The conditions under which a call panics: an expect on None, a Vec index
\* out of bounds, a swap_remove past the end, `items -= 1` at 0.

\* insert: .expect(..) on bucket(), then self.buckets[bucket].
insert_fails(m, key) ==
    LET m1 == grow(m)
        b == bucket(m1, key)
    IN  b = None \/ unwrap(b) >= Len(m1.buckets)

\* entry: .expect(..) on bucket(), self.buckets[bucket], and
\* self.buckets[bucket][index] for the Occupied entry.
entry_fails(m, key) ==
    LET m1 == grow(m)
        b == bucket(m1, key)
    IN  \/ b = None
        \/ unwrap(b) >= Len(m1.buckets)
        \/ LET pos == position(m1.buckets[unwrap(b) + 1], key)
           IN  pos # None /\ unwrap(pos) >= Len(m1.buckets[unwrap(b) + 1])

\* get: self.buckets[bucket].
get_fails(m, key) ==
    LET b == bucket(m, key)
    IN  b # None /\ unwrap(b) >= Len(m.buckets)

\* remove: self.buckets[bucket], `self.items -= 1`, bucket.swap_remove(i).
remove_fails(m, key) ==
    LET b == bucket(m, key)
    IN  /\ b # None
        /\ \/ unwrap(b) >= Len(m.buckets)
           \/ LET i == position(m.buckets[unwrap(b) + 1], key)
              IN  /\ i # None
                  /\ \/ m.items < 1
                     \/ unwrap(i) >= Len(m.buckets[unwrap(b) + 1])

\* VacantEntry::insert: self.map.buckets[self.bucket], twice.
vacant_insert_fails(m, e) == e.bucket >= Len(m.buckets)

\* ------------------------------------------------------- the state machine

\* The HashMap value the variables hold.
map == [buckets |-> buckets, items |-> items]

\* The record of a call: what was called, with what, and what it returned.
\* resized: the call ran resize(); maker_calls: evaluations of maker();
\* kind: the variant of the Entry the call consumed; input: the sequence
\* from_iter was given; step: see round_trip.
Call(op, key, value, ret) ==
    [op |-> op, key |-> key, value |-> value, ret |-> ret,
     resized |-> FALSE, maker_calls |-> 0, kind |-> "", input |-> <<>>, step |-> 0]

\* tests::insert calls insert(k, v), get(&k), remove(&k), get(&k) in a row:
\* how many calls of that sequence, on one key, the latest calls make up
\* when the call (op, key) is added to them.
round_trip(op, key) ==
    IF op = "insert" THEN 1
    ELSE IF op = "get" /\ last.step = 1 /\ key = last.key THEN 2
    ELSE IF op = "remove" /\ last.step \in {1, 2} /\ key = last.key THEN 3
    ELSE IF op = "get" /\ last.step = 3 /\ key = last.key THEN 4
    ELSE 0

\* The record of a call of the round trip: it keeps the value inserted at its
\* start and whether that insert resized.
RoundTripCall(op, key, ret) ==
    LET s == round_trip(op, key)
    IN  IF s = 0 THEN Call(op, key, 0, ret)
        ELSE [Call(op, key, last.value, ret) EXCEPT !.resized = last.resized, !.step = s]

\* Finite sequences over S of length at most n.
SeqsUpTo(S, n) == UNION {[1..k -> S] : k \in 0..n}

\* The reference map after inserting the pairs of a sequence in order.
RECURSIVE ref_fold(_, _)
ref_fold(r, pairs) ==
    IF pairs = <<>> THEN r
    ELSE ref_fold([r EXCEPT ![Head(pairs)[1]] = Some(Head(pairs)[2])], Tail(pairs))

ref_empty == [k \in Keys |-> None]

\* let mut map = HashMap::new(); under any hash function.
Init ==
    /\ buckets = new.buckets
    /\ items = new.items
    /\ hash \in [Keys -> HashVals]
    /\ owner = "caller"
    /\ entry = NoEntry
    /\ iter = iter_new
    /\ yielded = <<>>
    /\ snapshot = <<>>
    /\ nones = 0
    /\ ref = ref_empty
    /\ last = Call("new", 0, 0, None)

IterVarsUnchanged == UNCHANGED <<iter, yielded, snapshot, nones>>

\* map.insert(key, value)
CallInsert(key, value) ==
    /\ owner = "caller"
    /\ LET r == insert(map, key, value)
       IN  /\ buckets' = r.map.buckets
           /\ items' = r.map.items
           /\ last' = [Call("insert", key, value, r.ret)
                         EXCEPT !.resized = r.resized, !.step = round_trip("insert", key)]
    /\ ref' = [ref EXCEPT ![key] = Some(value)]
    /\ UNCHANGED <<hash, owner, entry>>
    /\ IterVarsUnchanged

\* get that runs the resize check of insert and entry.
CallGetGrows(key) ==
    /\ owner = "caller"
    /\ last' = RoundTripCall("get", key, get(grow(map), key))
    /\ buckets' = grow(map).buckets
    /\ UNCHANGED <<items, hash, owner, entry, ref>>
    /\ UNCHANGED <<iter, yielded, snapshot, nones>>

\* map.get(&key)
CallGet(key) ==
    /\ owner = "caller"
    /\ last' = RoundTripCall("get", key, get(map, key))
    /\ UNCHANGED <<buckets, items, hash, owner, entry, ref>>
    /\ IterVarsUnchanged

\* map.contains_key(&key)
CallContainsKey(key) ==
    /\ owner = "caller"
    /\ last' = Call("contains_key", key, 0, contains_key(map, key))
    /\ UNCHANGED <<buckets, items, hash, owner, entry, ref>>
    /\ IterVarsUnchanged

\* map.remove(&key)
CallRemove(key) ==
    /\ owner = "caller"
    /\ LET r == remove(map, key)
       IN  /\ buckets' = r.map.buckets
           /\ items' = r.map.items
           /\ last' = RoundTripCall("remove", key, r.ret)
    /\ ref' = [ref EXCEPT ![key] = None]
    /\ UNCHANGED <<hash, owner, entry>>
    /\ IterVarsUnchanged

\* map.len()
CallLen ==
    /\ owner = "caller"
    /\ last' = Call("len", 0, 0, len(map))
    /\ UNCHANGED <<buckets, items, hash, owner, entry, ref>>
    /\ IterVarsUnchanged

\* map.is_empty()
CallIsEmpty ==
    /\ owner = "caller"
    /\ last' = Call("is_empty", 0, 0, is_empty(map))
    /\ UNCHANGED <<buckets, items, hash, owner, entry, ref>>
    /\ IterVarsUnchanged

\* map.entry(key): the Entry borrows the map until it is consumed.
CallEntry(key) ==
    /\ owner = "caller"
    /\ LET r == entry_of(map, key)
       IN  /\ buckets' = r.map.buckets
           /\ items' = r.map.items
           /\ entry' = r.entry
           /\ last' = [Call("entry", key, 0, None) EXCEPT !.resized = r.resized]
    /\ owner' = "Entry"
    /\ UNCHANGED <<hash, ref>>
    /\ IterVarsUnchanged

\* entry.or_insert(value)
CallOrInsert(value) ==
    /\ owner = "Entry"
    /\ LET r == or_insert(map, entry, value)
       IN  /\ buckets' = r.map.buckets
           /\ items' = r.map.items
           /\ last' = [Call("or_insert", last.key, value, r.ret)
                         EXCEPT !.resized = last.resized, !.kind = entry.kind]
    /\ ref' = IF ref[last.key] = None THEN [ref EXCEPT ![last.key] = Some(value)] ELSE ref
    /\ owner' = "caller"
    /\ entry' = NoEntry
    /\ UNCHANGED hash
    /\ IterVarsUnchanged

\* entry.or_insert_with(maker), where maker() returns `made`
CallOrInsertWith(made) ==
    /\ owner = "Entry"
    /\ LET r == or_insert_with(map, entry, made)
       IN  /\ buckets' = r.map.buckets
           /\ items' = r.map.items
           /\ last' = [Call("or_insert_with", last.key, made, r.ret)
                         EXCEPT !.resized = last.resized, !.kind = entry.kind,
                                !.maker_calls = r.maker_calls]
    /\ ref' = IF ref[last.key] = None THEN [ref EXCEPT ![last.key] = Some(made)] ELSE ref
    /\ owner' = "caller"
    /\ entry' = NoEntry
    /\ UNCHANGED hash
    /\ IterVarsUnchanged

\* entry.or_default()
CallOrDefault ==
    /\ owner = "Entry"
    /\ LET r == or_default(map, entry)
       IN  /\ buckets' = r.map.buckets
           /\ items' = r.map.items
           /\ last' = [Call("or_default", last.key, DefaultV, r.ret)
                         EXCEPT !.resized = last.resized, !.kind = entry.kind,
                                !.maker_calls = r.maker_calls]
    /\ ref' = IF ref[last.key] = None THEN [ref EXCEPT ![last.key] = Some(DefaultV)] ELSE ref
    /\ owner' = "caller"
    /\ entry' = NoEntry
    /\ UNCHANGED hash
    /\ IterVarsUnchanged

\* (&map).into_iter(): the Iter borrows the map.
CallIter ==
    /\ owner = "caller"
    /\ owner' = "Iter"
    /\ iter' = iter_new
    /\ yielded' = <<>>
    /\ snapshot' = buckets
    /\ nones' = 0
    /\ last' = Call("iter", 0, 0, None)
    /\ UNCHANGED <<buckets, items, hash, entry, ref>>

\* Iter::next
IterNext ==
    /\ owner = "Iter"
    /\ nones < MaxNones
    /\ LET r == iter_next(map, iter)
       IN  /\ iter' = r.iter
           /\ yielded' = IF r.ret = None THEN yielded ELSE Append(yielded, unwrap(r.ret))
           /\ nones' = IF r.ret = None THEN nones + 1 ELSE nones
           /\ last' = Call("Iter::next", 0, 0, r.ret)
    /\ UNCHANGED <<buckets, items, hash, owner, entry, snapshot, ref>>

\* The Iter goes out of scope and the borrow ends.
IterDrop ==
    /\ owner = "Iter"
    /\ owner' = "caller"
    /\ iter' = iter_new
    /\ yielded' = <<>>
    /\ snapshot' = <<>>
    /\ nones' = 0
    /\ last' = Call("drop", 0, 0, None)
    /\ UNCHANGED <<buckets, items, hash, entry, ref>>

\* map.into_iter(): the map moves into the IntoIter.
CallIntoIter ==
    /\ owner = "caller"
    /\ owner' = "IntoIter"
    /\ iter' = iter_new
    /\ yielded' = <<>>
    /\ snapshot' = buckets
    /\ nones' = 0
    /\ last' = Call("into_iter", 0, 0, None)
    /\ UNCHANGED <<buckets, items, hash, entry, ref>>

\* IntoIter::next
IntoIterNext ==
    /\ owner = "IntoIter"
    /\ nones < MaxNones
    /\ LET r == into_iter_next(map, iter)
       IN  /\ buckets' = r.map.buckets
           /\ items' = r.map.items
           /\ iter' = r.iter
           /\ yielded' = IF r.ret = None THEN yielded ELSE Append(yielded, unwrap(r.ret))
           /\ nones' = IF r.ret = None THEN nones + 1 ELSE nones
           /\ last' = Call("IntoIter::next", 0, 0, r.ret)
    /\ UNCHANGED <<hash, owner, entry, snapshot, ref>>

\* HashMap::from_iter(pairs), in place of HashMap::new()
CallFromIter(pairs) ==
    /\ owner = "caller"
    /\ last.op = "new"
    /\ LET m == from_iter(pairs)
       IN  /\ buckets' = m.buckets
           /\ items' = m.items
    /\ ref' = ref_fold(ref_empty, pairs)
    /\ last' = [Call("from_iter", 0, 0, None) EXCEPT !.input = pairs]
    /\ UNCHANGED <<hash, owner, entry>>
    /\ IterVarsUnchanged

Next ==
    \/ \E key \in Keys, value \in Vals : CallInsert(key, value)
    \/ \E key \in Keys : CallGet(key)
    \/ \E key \in Keys : CallContainsKey(key)
    \/ \E key \in Keys : CallRemove(key)
    \/ CallLen
    \/ CallIsEmpty
    \/ \E key \in Keys : CallEntry(key)
    \/ \E value \in Vals : CallOrInsert(value)
    \/ \E made \in Vals : CallOrInsertWith(made)
    \/ CallOrDefault
    \/ CallIter
    \/ IterNext
    \/ IterDrop
    \/ CallIntoIter
    \/ IntoIterNext

Spec == Init /\ [][Next]_vars

\* let map: HashMap<_, _> = pairs.into_iter().collect(); for every sequence
\* of at most MaxSeqLen pairs.
NextFromIter == \E pairs \in SeqsUpTo(Pairs, MaxSeqLen) : CallFromIter(pairs)

SpecFromIter == Init /\ [][NextFromIter]_vars

\* ------------------------------------------------------------- the claims

\* The keys the calls so far have inserted and not since removed.
PresentKeys == {k \in Keys : ref[k] # None}

\* The pairs the reference map holds.
RefPairs == {<<k, unwrap(ref[k])>> : k \in PresentKeys}

Range(s) == {s[i] : i \in 1..Len(s)}

MaxOf(S) == CHOOSE i \in S : \A j \in S : i >= j

\* C1: after any sequence of insert, remove and entry(..).or_insert calls
\* from new(), len() is the number of distinct keys inserted and not since
\* removed, it is the number of pairs a full borrowing traversal yields, and
\* is_empty() is true exactly when that number is 0.
C1_LenIsKeyCount ==
    owner # "IntoIter" =>
        /\ len(map) = Cardinality(PresentKeys)
        /\ len(map) = Len(traverse(map))
        /\ is_empty(map) <=> (Cardinality(PresentKeys) = 0)

\* A remove of a present key has left one of two keys behind.
C1_Witness ==
    /\ last.op = "remove"
    /\ is_some(last.ret)
    /\ len(map) = 1
    /\ Len(traverse(map)) = 1
    /\ Len(buckets) > 1

\* C2: insert(k, v) followed by get(k) returns Some(v), also when the insert
\* resized; a following remove(k) returns Some(v); a get(k) after that remove
\* returns None.
C2_RoundTrip ==
    /\ last.step = 2 => last.op = "get" /\ last.ret = Some(last.value)
    /\ last.step = 3 => last.op = "remove" /\ last.ret = Some(last.value)
    /\ last.step = 4 => last.op = "get" /\ last.ret = None

\* The whole round trip has run, on an insert that resized a table holding
\* another key.
C2_Witness ==
    /\ last.step = 4
    /\ last.resized
    /\ len(map) >= 1

\* C3: insert(k, v) with k present with value w returns Some(w), makes k map
\* to v and leaves len() unchanged; with k absent it returns None and adds 1
\* to len(); with or without a resize.
C3_InsertUpdates ==
    [][last'.op = "insert" =>
          LET k == last'.key
              w == ref[k]
          IN  /\ get(map', k) = Some(last'.value)
              /\ IF w # None
                 THEN last'.ret = w /\ len(map') = len(map)
                 ELSE last'.ret = None /\ len(map') = len(map) + 1]_vars

\* An insert has replaced a different value and resized on the way.
C3_Witness ==
    /\ last.op = "insert"
    /\ last.resized
    /\ is_some(last.ret)
    /\ unwrap(last.ret) # last.value
    /\ len(map) = 2

\* C4: get and contains_key leave the bucket array, the buckets and the item
\* counter as they are (no resize); contains_key(q) is get(q).is_some(); with
\* zero buckets get returns None and contains_key returns false.
C4_LookupsArePure ==
    [][last'.op \in {"get", "contains_key"} =>
          /\ buckets' = buckets
          /\ items' = items
          /\ last'.op = "contains_key" => last'.ret = is_some(get(map, last'.key))
          /\ Len(buckets) = 0 =>
                 last'.ret = IF last'.op = "get" THEN None ELSE FALSE]_vars

\* contains_key has found a key in a table that the next insert will resize.
C4_Witness ==
    /\ last.op = "contains_key"
    /\ last.ret = TRUE
    /\ needs_resize(map)

\* C5: remove(q) of a key that is not present, also with zero buckets,
\* returns None and leaves buckets, bucket count and len() unchanged.
C5_RemoveAbsent ==
    [][last'.op = "remove" /\ ref[last'.key] = None =>
          /\ last'.ret = None
          /\ buckets' = buckets
          /\ items' = items]_vars

\* A remove has missed in a table that holds another key.
C5_Witness ==
    /\ last.op = "remove"
    /\ last.ret = None
    /\ len(map) >= 1
    /\ Len(buckets) >= 2

\* C6: entry(k).or_insert(v): with k present with value w the returned slot
\* holds w, k still maps to w and len() is unchanged; with k absent (k, v) is
\* stored, len() grows by exactly 1 and get(k) returns Some(v); every other
\* key keeps its value.  The call is two steps, entry(k) and or_insert(v):
\* entry(k) leaves len() and the reference map as they are, so that at the
\* second step both are still those from before the call.
C6_EntryOrInsert ==
    [][/\ last'.op = "entry" => len(map') = len(map) /\ ref' = ref
       /\ last'.op = "or_insert" =>
              LET k == last'.key
                  w == ref[k]
              IN  /\ IF w # None
                     THEN /\ last'.ret = unwrap(w)
                          /\ get(map', k) = w
                          /\ len(map') = len(map)
                     ELSE /\ last'.ret = last'.value
                          /\ get(map', k) = Some(last'.value)
                          /\ len(map') = len(map) + 1
                  /\ \A j \in Keys \ {k} : get(map', j) = ref[j]]_vars

\* or_insert has stored a second key through a Vacant entry whose entry()
\* call resized the table.
C6_Witness ==
    /\ last.op = "or_insert"
    /\ last.kind = "Vacant"
    /\ last.resized
    /\ len(map) = 2

\* C7: entry(k).or_insert_with(maker) evaluates maker() zero times when k is
\* present and exactly once when k is absent, storing what it returned;
\* or_default is or_insert_with with V's default constructor.
C7_MakerIsLazy ==
    [][last'.op \in {"or_insert_with", "or_default"} =>
          LET k == last'.key
              w == ref[k]
              made == IF last'.op = "or_default" THEN DefaultV ELSE last'.value
          IN  IF w # None
              THEN /\ last'.maker_calls = 0
                   /\ last'.ret = unwrap(w)
                   /\ get(map', k) = w
                   /\ len(map') = len(map)
              ELSE /\ last'.maker_calls = 1
                   /\ last'.ret = made
                   /\ get(map', k) = Some(made)
                   /\ len(map') = len(map) + 1]_vars

\* or_insert_with has met a present key whose value differs from what
\* maker() would have produced.
C7_Witness ==
    /\ last.op = "or_insert_with"
    /\ last.kind = "Occupied"
    /\ last.maker_calls = 0
    /\ last.ret # last.value

\* C8: a full borrowing traversal of a table holding N distinct keys yields
\* exactly N pairs, each present key once with its current value, skips
\* empty buckets, then returns None; the table is not modified.
C8_IterVisitsAll ==
    owner = "Iter" =>
        /\ buckets = snapshot
        /\ len(map) = Cardinality(PresentKeys)
        /\ Range(yielded) \subseteq RefPairs
        /\ Cardinality(Range(yielded)) = Len(yielded)
        /\ nones = 0 /\ Len(yielded) = Cardinality(PresentKeys) =>
               iter_next(map, iter).ret = None
        /\ nones >= 1 =>
               /\ last.op = "Iter::next" /\ last.ret = None
               /\ Range(yielded) = RefPairs
               /\ Len(yielded) = Cardinality(PresentKeys)

\* A traversal has ended after two pairs in a table of four buckets, the
\* first of them empty.
C8_Witness ==
    /\ owner = "Iter"
    /\ nones >= 1
    /\ Len(yielded) = 2
    /\ Len(buckets) = 4
    /\ buckets[1] = <<>>

Reverse(s) == [i \in 1..Len(s) |-> s[Len(s) + 1 - i]]

\* The pairs of a bucket array in the order repeated pops give them: buckets
\* ascending, each bucket last to first.
RECURSIVE pop_order(_)
pop_order(bs) == IF bs = <<>> THEN <<>> ELSE Reverse(Head(bs)) \o pop_order(Tail(bs))

\* C9: the consuming traversal of a table holding N pairs yields exactly N
\* pairs, each stored pair once, popping the last element of the current
\* bucket and moving on only when that bucket is empty; after N pairs it
\* returns None, and then all buckets are empty and next() keeps returning
\* None.
C9_IntoIterDrains ==
    owner = "IntoIter" =>
        /\ yielded \o pop_order(buckets) = pop_order(snapshot)
        /\ \A b \in 1..Len(buckets) : b <= iter.bucket => buckets[b] = <<>>
        /\ Len(yielded) = Len(drain(snapshot)) =>
               into_iter_next(map, iter).ret = None
        /\ nones >= 1 =>
               /\ last.op = "IntoIter::next" /\ last.ret = None
               /\ Len(yielded) = Len(drain(snapshot))
               /\ \A b \in 1..Len(buckets) : buckets[b] = <<>>

\* A table with two pairs in one bucket has been consumed and next() has
\* returned None twice.
C9_Witness ==
    /\ owner = "IntoIter"
    /\ nones >= 2
    /\ Len(yielded) = 2
    /\ \E b \in 1..Len(snapshot) : Len(snapshot[b]) = 2

\* The value of the last pair of a sequence with key k.
last_value(pairs, k) ==
    LET idx == {i \in 1..Len(pairs) : pairs[i][1] = k}
    IN  IF idx = {} THEN None ELSE Some(pairs[MaxOf(idx)][2])

\* C10: the table from_iter builds from a sequence of pairs maps every key
\* to the value of its last occurrence in the sequence, as inserting the
\* pairs in order does, and its len() is the number of distinct keys of the
\* sequence.
C10_FromIter ==
    last.op = "from_iter" =>
        /\ \A k \in Keys : get(map, k) = last_value(last.input, k)
        /\ len(map) = Cardinality({p[1] : p \in Range(last.input)})
        /\ len(map) = Len(traverse(map))

\* from_iter over (a, x), (b, y), (a, z) with x # z.
C10_Witness ==
    /\ last.op = "from_iter"
    /\ Len(last.input) = 3
    /\ last.input[1][1] = last.input[3][1]
    /\ last.input[1][1] # last.input[2][1]
    /\ last.input[1][2] # last.input[3][2]
    /\ len(map) = 2

\* C11: the table refines the reference map under every hash function:
\* after any sequence of insert, remove, entry(..).or_insert, or_insert_with
\* and or_default calls, with the resizes they run, get(q) is Some(v) exactly
\* when the reference map maps q to v and None otherwise.  A call on key k
\* changes the reference map at k alone, so no other key changes.
C11_RefinesRef ==
    owner # "IntoIter" => \A q \in Keys : get(map, q) = ref[q]

\* An absent key has been stored through an entry that resized, next to a
\* key the table held before with another value.
C11_Witness ==
    /\ last.op = "or_insert_with"
    /\ last.kind = "Vacant"
    /\ last.resized
    /\ Len(buckets) >= 2
    /\ \E q \in Keys \ {last.key} : is_some(ref[q]) /\ unwrap(ref[q]) # last.value

RECURSIVE sum_len(_)
sum_len(bs) == IF bs = <<>> THEN 0 ELSE Len(Head(bs)) + sum_len(Tail(bs))

\* C12: between operations the item counter is the sum of the lengths of
\* all buckets; insert (new key and replace), remove (present and absent
\* key), VacantEntry::insert and resize keep it.  (While an IntoIter owns the
\* map, no operation of the table can run.)
C12_ItemsIsSumOfLens ==
    owner # "IntoIter" => items = sum_len(buckets)

\* or_default has pushed a second pair on a bucket.
C12_Witness ==
    /\ last.op = "or_default"
    /\ last.kind = "Vacant"
    /\ items = 2
    /\ \E b \in 1..Len(buckets) : Len(buckets[b]) = 2

\* C13: no key is stored twice, neither within a bucket nor in two buckets,
\* after any sequence of insert, remove, entry insertion and resize.
C13_KeysAreDistinct ==
    LET all == drain(buckets)
    IN  \A i, j \in 1..Len(all) : all[i][1] = all[j][1] => i = j

\* An insert has replaced the value of the second pair of a bucket.
C13_Witness ==
    /\ last.op = "insert"
    /\ is_some(last.ret)
    /\ \E b \in 1..Len(buckets) :
           /\ Len(buckets[b]) = 2
           /\ buckets[b][2][1] = last.key

\* C14: right after the resize check at the start of insert or entry,
\* items <= 3 * len(buckets) / 4, so that one doubling is always enough; and
\* after a completed insert or entry(..).or_insert (or_insert_with,
\* or_default), items <= 3 * max(len(buckets), 1) / 4 + 1.  The state after
\* entry(k) is the state after its resize check; that of insert is
\* grow(map).
C14_LoadFactor ==
    /\ owner = "caller" =>
           LET m1 == grow(map)
           IN  /\ Len(m1.buckets) > 0
               /\ m1.items <= (3 * Len(m1.buckets)) \div 4
    /\ owner = "Entry" =>
           /\ Len(buckets) > 0
           /\ items <= (3 * Len(buckets)) \div 4
    /\ last.op \in {"insert", "or_insert", "or_insert_with", "or_default"} =>
           items <= (3 * (IF Len(buckets) > 1 THEN Len(buckets) ELSE 1)) \div 4 + 1

\* entry() has doubled a full table and the counter sits exactly on the new
\* limit.
C14_Witness ==
    /\ owner = "Entry"
    /\ last.resized
    /\ items >= 1
    /\ items = (3 * Len(buckets)) \div 4

IsPowerOfTwo(n) == \E e \in 0..n : 2 ^ e = n

\* C15: the bucket count changes only at the start of an insert or entry
\* call, exactly when len(buckets) = 0 or items > 3 * len(buckets) / 4 at
\* that moment (also for a present key), and then from 0 to 1 or from n to
\* 2n; it is always 0 or a power of two and never decreases; get,
\* contains_key, remove and the traversals leave it alone.
C15_BucketCount ==
    [][LET n == Len(buckets)
           n2 == Len(buckets')
           due == n = 0 \/ items > (3 * n) \div 4
       IN  /\ n2 # n => last'.op \in {"insert", "entry"}
           /\ last'.op \in {"insert", "entry"} =>
                  /\ (n2 # n) <=> due
                  /\ last'.resized <=> due
                  /\ due => n2 = IF n = 0 THEN 1 ELSE 2 * n
           /\ n2 >= n
           /\ n = 0 \/ IsPowerOfTwo(n)
           /\ n2 = 0 \/ IsPowerOfTwo(n2)]_vars

\* An insert has replaced the value of a present key and doubled the table
\* to four buckets on the way.
C15_Witness ==
    /\ last.op = "insert"
    /\ is_some(last.ret)
    /\ last.resized
    /\ Len(buckets) = 4

\* How often pair p occurs in the buckets bs.
occurrences(p, bs) == Cardinality({i \in 1..Len(drain(bs)) : drain(bs)[i] = p})

\* C16: a resize leaves the content as it is: every pair is held as often
\* after it as before (none lost, duplicated or altered), the item counter
\* is unchanged, every pair of the old buckets has been moved, and only the
\* bucket count and the placement of the pairs change.  entry(k) does
\* nothing to the table but its resize, so its steps show the resize alone.
C16_ResizeKeepsContent ==
    [][last'.op = "entry" /\ last'.resized =>
          /\ \A p \in Pairs : occurrences(p, buckets') = occurrences(p, buckets)
          /\ Len(drain(buckets')) = Len(drain(buckets))
          /\ items' = items
          /\ Len(buckets') = IF Len(buckets) = 0 THEN INITIAL_NBUCKETS
                             ELSE 2 * Len(buckets)
          /\ ref' = ref
          /\ hash' = hash]_vars

\* A resize to four buckets has left two pairs in two different buckets.
C16_Witness ==
    /\ last.op = "entry"
    /\ last.resized
    /\ Len(buckets) = 4
    /\ items = 2
    /\ \A b \in 1..4 : Len(buckets[b]) <= 1

C18_NoRuntimeFailure ==
    /\ items >= 0
    /\ owner = "caller" =>
           \A k \in Keys :
               /\ ~insert_fails(map, k)
               /\ ~entry_fails(map, k)
               /\ ~get_fails(map, k)
               /\ ~remove_fails(map, k)
    /\ owner = "Entry" =>
           /\ entry.bucket < Len(buckets)
           /\ entry.kind = "Vacant" => ~vacant_insert_fails(map, entry)
           /\ entry.kind = "Occupied" => entry.index < Len(buckets[entry.bucket + 1])
    /\ last.op = "get" /\ ref[last.key] = None => last.ret = None
    /\ last.op = "contains_key" /\ ref[last.key] = None => last.ret = FALSE

\* A remove has missed in a table that has buckets and a counter of 0.
C18_Witness ==
    /\ last.op = "remove"
    /\ last.ret = None
    /\ items = 0
    /\ Len(buckets) >= 2

\* C19: every stored pair (k, v) lies in bucket hash(k) mod len(buckets),
\* also after a resize and after the insertion through a Vacant entry, whose
\* bucket index entry() computes after its resize check.
C19_Placement ==
    \A b \in 1..Len(buckets) :
        \A i \in 1..Len(buckets[b]) :
            hash[buckets[b][i][1]] % Len(buckets) = b - 1

\* A Vacant entry of an entry() call that resized has pushed its pair on a
\* bucket other than bucket 0.
C19_Witness ==
    /\ last.op = "or_insert"
    /\ last.kind = "Vacant"
    /\ last.resized
    /\ \E b \in 2..Len(buckets) :
           \E i \in 1..Len(buckets[b]) : buckets[b][i][1] = last.key

\* C20, as stated: every insert call adds exactly 1 to the item counter,
\* also when it replaces the value of a present key.
C20_AlwaysIncrements ==
    [][last'.op = "insert" => items' = items + 1]_vars

\* C20, amended: an insert call adds exactly 1 to the item counter when the
\* key is absent and leaves the counter unchanged when it replaces the value
\* of a present key.
C20_IncrementsForNewKey ==
    [][last'.op = "insert" =>
          items' = items + (IF ref[last'.key] = None THEN 1 ELSE 0)]_vars

\* An insert has replaced a value without a resize and the counter is still
\* 1.
C20_Witness ==
    /\ last.op = "insert"
    /\ is_some(last.ret)
    /\ ~last.resized
    /\ items = 1

====
